---- MODULE Spec2Model ----
(***************************************************************************)
(* Benchmark execution engine of comparavision-integration.                *)
(*                                                                         *)
(* Two workers are modelled side by side:                                  *)
(*   "enhanced" = src/backend/runpod/enhanced_vision_benchmark_worker.py   *)
(*   "basic"    = src/runpod/vision_benchmark_worker.py                    *)
(* The variable worker selects which of the two a behaviour runs.          *)
(*                                                                         *)
(* Specifications:                                                         *)
(*   Spec            one handler(job) invocation over every job input:     *)
(*                   validation, the two benchmark_model runs, the result  *)
(*                   and the save.                                         *)
(*   SpecMonitoring  one handler(job) invocation with the sampling thread  *)
(*                   taking samples.                                       *)
(*   SpecLoad        a sequence of load_model calls on one loader.         *)
(*   SpecConc        two threads calling load_model on the shared loader.  *)
(*   SpecWinner      one handler(job) invocation with every mean inference *)
(*                   time and ground truth.                                *)
(*   SpecScoring     direct calls of the scoring function.                 *)
(*   SpecCompare     the end of handler over given metric records.         *)
(*   SpecGreen       direct calls of calculate_green_score.                *)
(*   SpecStop        one handler(job) invocation whose main thread always  *)
(*                   goes on while the sampling threads may stall.         *)
(*   SpecRun         one direct call of benchmark_model, the empty batch   *)
(*                   included.                                             *)
(***************************************************************************)
EXTENDS Integers, Sequences, FiniteSets, TLC

\* ------------------------------------------------------------------ bounds
MaxImages == 2        \* longest images_data batch
MaxGroundTruth == 1   \* largest ground_truth_cars of an image
MaxCars == 1          \* most car boxes one model invocation yields
MaxSamples == 1       \* samples one sampling thread takes
MaxMemory == 2        \* resident-memory levels (abstract MB)
MaxLoads == 3         \* load_model calls in SpecLoad
MaxDetected == 7      \* largest detection count handed to the scoring function directly
MaxTruth == 6         \* largest ground truth handed to the scoring function directly

VARIABLES
    worker,               \* which worker implementation runs
    job,                  \* the job input handed to handler
    cuda_available,       \* torch.cuda.is_available()
    scored,               \* the last direct call of a scoring function (SpecScoring, SpecGreen)
    hpc,                  \* position of handler
    bm,                   \* the benchmark_model activation in progress
    metrics_a,            \* handler local: result of run A
    metrics_b,            \* handler local: result of run B
    result,               \* what handler returned
    model_cache,          \* loader.model_cache / models_cache: name -> handle (0 = absent)
    next_handle,          \* identity of the next constructed model object
    load_log,             \* test-double trace of load_model calls
    monitoring,           \* monitor.monitoring
    monitor_thread,       \* monitor.monitor_thread (index into threads, 0 = None)
    threads,              \* every sampling thread ever started
    initial_memory,       \* monitor.initial_memory
    peak_memory,          \* monitor.peak_memory
    cpu_readings,         \* monitor.cpu_readings
    gpu_memory_readings,  \* monitor.gpu_memory_readings
    run_peak,             \* highest memory level sampled between the last start_monitoring and the run's get_metrics (0 = none)
    monitor_log,          \* trace of start_monitoring / stop_monitoring calls
    database,             \* DatabaseIntegration and the rows of the sink
    callers               \* threads calling load_model directly (SpecLoad, SpecConc)

vars == <<worker, job, cuda_available, scored, hpc, bm, metrics_a, metrics_b, result,
          model_cache, next_handle, load_log, monitoring, monitor_thread,
          threads, initial_memory, peak_memory, cpu_readings,
          gpu_memory_readings, run_peak, monitor_log, database, callers>>

handlerVars == <<worker, job, cuda_available, scored, hpc, bm, metrics_a, metrics_b, result>>
loaderVars == <<model_cache, next_handle, load_log>>
monitorVars == <<monitoring, monitor_thread, threads, initial_memory, peak_memory,
                 cpu_readings, gpu_memory_readings, run_peak, monitor_log>>

\* ------------------------------------------------------------- small helpers
Max(a, b) == IF a >= b THEN a ELSE b
Min(a, b) == IF a <= b THEN a ELSE b

RECURSIVE SeqsUpTo(_, _)
SeqsUpTo(S, n) ==
    IF n = 0 THEN {<<>>}
    ELSE LET shorter == SeqsUpTo(S, n - 1)
         IN  shorter \cup {Append(s, x) : s \in {t \in shorter : Len(t) = n - 1}, x \in S}

Last(s) == s[Len(s)]

\* ------------------------------------------- exact arithmetic for float values
\* A float is modelled by the rational number it stands for, kept in lowest
\* terms with a positive denominator.
RECURSIVE GCD(_, _)
GCD(a, b) == IF b = 0 THEN a ELSE GCD(b, a % b)

Abs(x) == IF x < 0 THEN 0 - x ELSE x

Rat(n, d) ==
    LET g == GCD(Abs(n), Abs(d))
        s == IF d < 0 THEN 0 - 1 ELSE 1
    IN  [num |-> s * (n \div g), den |-> s * (d \div g)]

Zero == [num |-> 0, den |-> 1]

One == [num |-> 1, den |-> 1]

RatAdd(x, y) ==
    LET g == GCD(x.den, y.den)
    IN  Rat(x.num * (y.den \div g) + y.num * (x.den \div g), (x.den \div g) * y.den)

RatSub(x, y) == RatAdd(x, [num |-> 0 - y.num, den |-> y.den])

RatMul(x, y) == Rat(x.num * y.num, x.den * y.den)

\* x / y for y # 0.
RatDiv(x, y) == Rat(x.num * y.den, x.den * y.num)

\* a/b < c/d for b, d > 0, through the integer parts and the inverted
\* remainders, so that no product is formed.
RECURSIVE FracLess(_, _, _, _)
FracLess(a, b, c, d) ==
    LET qa == a \div b
        qc == c \div d
        ra == a % b
        rc == c % d
    IN  IF qa # qc THEN qa < qc
        ELSE IF rc = 0 THEN FALSE
        ELSE IF ra = 0 THEN TRUE
        ELSE FracLess(d, rc, b, ra)

RatLess(x, y) == FracLess(x.num, x.den, y.num, y.den)

RatMax(x, y) == IF RatLess(x, y) THEN y ELSE x

RatMin(x, y) == IF RatLess(y, x) THEN y ELSE x

\* ------------------------------------------------------------ model registry
Workers == {"enhanced", "basic"}

\* A slice of the registry: one YOLO detector, the classifier, one non-vision model.
SUPPORTED_MODELS == {"Trained_yolov5", "efficientnet_b0", "llama2_70b"}

ModelNames == SUPPORTED_MODELS \cup {"unknown_model"}

\* The substring dispatch on model_name.lower() used by the loaders and by detect_cars.
ModelType(name) ==
    CASE name = "Trained_yolov5" -> "yolo"
      [] name = "efficientnet_b0" -> "efficientnet"
      [] OTHER -> "other"

\* ------------------------------------------------------------------- loader
NoHandle == 0

EmptyCache == [n \in ModelNames |-> NoHandle]

\* load_lookup without the cache test.
load_lookup_no_cache(w, cache, name) ==
    IF w = "enhanced" /\ name \notin SUPPORTED_MODELS THEN "unsupported"
    ELSE "miss"

\* load_model up to the point where construction would start: the cache test
\* and, in the enhanced loader only, the SUPPORTED_MODELS.get test.
load_lookup(w, cache, name) ==
    IF cache[name] # NoHandle THEN "hit"
    ELSE IF w = "enhanced" /\ name \notin SUPPORTED_MODELS THEN "unsupported"
    ELSE "miss"

\* load_construct storing the cache entry before the constructor has returned.
load_construct_cache_first(w, cache, nh, name, framework_ok) ==
    IF ModelType(name) \in {"yolo", "efficientnet"} \/ w = "enhanced"
    THEN [outcome |-> IF framework_ok \/ ModelType(name) = "other" THEN "built" ELSE "failed",
          handle |-> IF framework_ok \/ ModelType(name) = "other" THEN nh ELSE NoHandle,
          cache |-> [cache EXCEPT ![name] = nh], next_handle |-> nh + 1]
    ELSE [outcome |-> "unsupported", handle |-> NoHandle,
          cache |-> cache, next_handle |-> nh]

\* The try block of load_model: dispatch on the model type, run the framework
\* constructor, and only then store the model in the cache.  framework_ok says
\* whether the framework constructor (YOLO(...), timm.create_model) returns.
\* The enhanced loader builds a MockModel for every other registered type; the
\* basic loader raises ValueError for them.
load_construct(w, cache, nh, name, framework_ok) ==
    IF ModelType(name) \in {"yolo", "efficientnet"}
    THEN IF framework_ok
         THEN [outcome |-> "built", handle |-> nh,
               cache |-> [cache EXCEPT ![name] = nh], next_handle |-> nh + 1]
         ELSE [outcome |-> "failed", handle |-> NoHandle,
               cache |-> cache, next_handle |-> nh]
    ELSE IF w = "enhanced"
         THEN [outcome |-> "built", handle |-> nh,
               cache |-> [cache EXCEPT ![name] = nh], next_handle |-> nh + 1]
         ELSE [outcome |-> "unsupported", handle |-> NoHandle,
               cache |-> cache, next_handle |-> nh]

\* load_model as one uninterrupted call.
load_model(w, cache, nh, name, framework_ok) ==
    LET lk == load_lookup(w, cache, name)
    IN  IF lk = "hit"
        THEN [outcome |-> "hit", handle |-> cache[name], cache |-> cache, next_handle |-> nh]
        ELSE IF lk = "unsupported"
        THEN [outcome |-> "unsupported", handle |-> NoHandle, cache |-> cache, next_handle |-> nh]
        ELSE load_construct(w, cache, nh, name, framework_ok)

\* The exception a failed load raises.
LoadError(outcome) ==
    IF outcome = "unsupported" THEN "ValueError" ELSE "ModelLoadError"

LogEntry(name, r) == [name |-> name, outcome |-> r.outcome, handle |-> r.handle]

\* ------------------------------------------------- direct callers of the loader
Callers == {1, 2}

IdleCaller == [pc |-> "idle", name |-> "unknown_model", outcome |-> "none", handle |-> NoHandle]

CallsBegun == Len(load_log) + Cardinality({c \in Callers : callers[c].pc = "construct"})

\* One whole load_model call by caller c.
CallLoadModel(c, name, framework_ok) ==
    /\ callers[c].pc = "idle"
    /\ Len(load_log) < MaxLoads
    /\ LET r == load_model(worker, model_cache, next_handle, name, framework_ok)
       IN  /\ model_cache' = r.cache
           /\ next_handle' = r.next_handle
           /\ load_log' = Append(load_log, LogEntry(name, r))
           /\ callers' = [callers EXCEPT ![c] =
                            [pc |-> "idle", name |-> name, outcome |-> r.outcome, handle |-> r.handle]]
    /\ UNCHANGED <<handlerVars, monitorVars, database>>

\* First half of a load_model call by caller c: the tests before the try block.
CallLookup(c, name) ==
    /\ callers[c].pc = "idle"
    /\ CallsBegun < MaxLoads
    /\ LET lk == load_lookup(worker, model_cache, name)
       IN  IF lk = "miss"
           THEN /\ callers' = [callers EXCEPT ![c] =
                                 [pc |-> "construct", name |-> name, outcome |-> "none", handle |-> NoHandle]]
                /\ UNCHANGED load_log
           ELSE LET h == IF lk = "hit" THEN model_cache[name] ELSE NoHandle
                IN  /\ callers' = [callers EXCEPT ![c] =
                                     [pc |-> "idle", name |-> name, outcome |-> lk, handle |-> h]]
                    /\ load_log' = Append(load_log, [name |-> name, outcome |-> lk, handle |-> h])
    /\ UNCHANGED <<model_cache, next_handle, handlerVars, monitorVars, database>>

\* Second half: the try block, entered after the cache test missed.
CallConstruct(c, framework_ok) ==
    /\ callers[c].pc = "construct"
    /\ LET name == callers[c].name
           r == load_construct(worker, model_cache, next_handle, name, framework_ok)
       IN  /\ model_cache' = r.cache
           /\ next_handle' = r.next_handle
           /\ load_log' = Append(load_log, LogEntry(name, r))
           /\ callers' = [callers EXCEPT ![c] =
                            [pc |-> "idle", name |-> name, outcome |-> r.outcome, handle |-> r.handle]]
    /\ UNCHANGED <<handlerVars, monitorVars, database>>

\* ------------------------------------------------------------------ monitor
MemValues == 1..MaxMemory

\* The run a sample belongs to: the run of the latest start_monitoring call
\* (1 for model A, 2 for model B).
CurrentRun ==
    Cardinality({k \in 1..Len(monitor_log) : monitor_log[k] = "start"})

\* A reading is recorded with the run it was taken in; its numeric value is not
\* modelled.
Reading == [run |-> CurrentRun]

\* AdvancedSystemMonitor.start_monitoring sets the flag and starts a new
\* sampling thread; SystemMonitor.start_monitoring re-reads the resident memory
\* (mem) as the new baseline and empties the reading lists.
start_monitoring(w, mem) ==
    /\ monitor_log' = Append(monitor_log, "start")
    /\ IF w = "enhanced"
       THEN /\ monitoring' = TRUE
            /\ threads' = Append(threads, [pc |-> "check", samples |-> 0])
            /\ monitor_thread' = Len(threads) + 1
            /\ run_peak' = 0
            /\ UNCHANGED <<initial_memory, peak_memory, cpu_readings,
                           gpu_memory_readings>>
       ELSE /\ initial_memory' = mem
            /\ peak_memory' = mem
            /\ cpu_readings' = <<>>
            /\ gpu_memory_readings' = <<>>
            /\ run_peak' = mem
            /\ UNCHANGED <<monitoring, threads, monitor_thread>>

\* AdvancedSystemMonitor.stop_monitoring, up to the join.
stop_monitoring ==
    /\ monitoring' = FALSE
    /\ monitor_log' = Append(monitor_log, "stop")
    /\ UNCHANGED <<threads, monitor_thread, initial_memory, peak_memory,
                   cpu_readings, gpu_memory_readings, run_peak>>

\* join() without a timeout: it returns only when the thread has ended.
join_returns_no_timeout(thread_pc, timed_out) == thread_pc = "dead"

\* monitor_thread.join(timeout=1.0) returns when the thread has ended or when
\* the timeout expires.
join_returns(thread_pc, timed_out) == thread_pc = "dead" \/ timed_out

\* One sample: resident memory, then the CPU reading, then (with CUDA) the GPU
\* reading.  fault names the query that raises, if any.
SampleFaults == {"none", "memory", "cpu", "gpu"}

take_sample(mem, fault) ==
    /\ IF fault = "memory"
       THEN UNCHANGED <<peak_memory, run_peak>>
       ELSE /\ peak_memory' = Max(peak_memory, mem)
            /\ run_peak' = IF bm.pc \in {"load", "images"} THEN Max(run_peak, mem) ELSE run_peak
    /\ IF fault \in {"memory", "cpu"}
       THEN UNCHANGED cpu_readings
       ELSE cpu_readings' = Append(cpu_readings, Reading)
    /\ IF fault = "none" /\ cuda_available
       THEN gpu_memory_readings' = Append(gpu_memory_readings, Reading)
       ELSE UNCHANGED gpu_memory_readings

\* _monitor_loop: the test of "while self.monitoring".  A thread that has taken
\* budget samples stays asleep (time.sleep) while the flag is set.
MonitorLoopCheck(i, budget) ==
    /\ i \in 1..Len(threads)
    /\ threads[i].pc = "check"
    /\ IF monitoring
       THEN /\ threads[i].samples < budget
            /\ threads' = [threads EXCEPT ![i].pc = "sample"]
       ELSE threads' = [threads EXCEPT ![i].pc = "dead"]
    /\ UNCHANGED <<handlerVars, loaderVars, monitoring, monitor_thread, initial_memory,
                   peak_memory, cpu_readings, gpu_memory_readings, run_peak,
                   monitor_log, database, callers>>

\* _monitor_loop: the loop body.  A GPU query that raises is passed over by the
\* inner except; any other exception leaves the loop through "except: break".
MonitorLoopSample(i, mem, fault) ==
    /\ i \in 1..Len(threads)
    /\ threads[i].pc = "sample"
    /\ fault = "gpu" => cuda_available
    /\ take_sample(mem, fault)
    /\ threads' = [threads EXCEPT ![i] =
                     IF fault \in {"memory", "cpu"}
                     THEN [pc |-> "dead", samples |-> @.samples]
                     ELSE [pc |-> "check", samples |-> @.samples + 1]]
    /\ UNCHANGED <<handlerVars, loaderVars, monitoring, monitor_thread, initial_memory,
                   monitor_log, database, callers>>

\* get_metrics: the peak and the reading lists the averages and maxima are taken of
\* (the mean and the maximum of a list are kept as the list itself).
get_metrics ==
    [peak_memory_mb |-> peak_memory,
     cpu_samples |-> cpu_readings,
     gpu_samples |-> gpu_memory_readings]

\* ---------------------------------------------------------------- job input
ImageSamples == [valid : BOOLEAN, ground_truth_cars : 1..MaxGroundTruth]

Batches == SeqsUpTo(ImageSamples, MaxImages)

\* images_data may be missing from the job input altogether.
JobInputs ==
    [model_a : ModelNames, model_b : ModelNames, has_images : {TRUE}, images_data : Batches]
    \cup [model_a : ModelNames, model_b : ModelNames, has_images : {FALSE}, images_data : {<<>>}]

\* job_input.get('images_data', [])
get_images_data(j) == IF j.has_images THEN j.images_data ELSE <<>>

\* The images_data test left out.
images_missing_never(images) == FALSE

\* "if not images_data"
images_missing(images) == Len(images) = 0

\* ------------------------------------------------------------------ detector
NoFailure == 0 - 1

\* detect_cars.  The model output holds cars qualifying car boxes; fail_at = k >= 0
\* means an exception is raised inside the try block after k detections have been
\* appended (k = 0: in the model invocation itself or before the first append).
\* The except clause logs and falls through to "return detections".
detect_cars(w, mtype, cars, fail_at) ==
    CASE mtype = "yolo" ->
           IF fail_at = NoFailure
           THEN [detections |-> cars, raised |-> FALSE]
           ELSE [detections |-> Min(fail_at, cars), raised |-> TRUE]
      [] mtype = "efficientnet" ->
           IF fail_at # NoFailure
           THEN [detections |-> 0, raised |-> TRUE]
           ELSE IF w = "basic"
                THEN [detections |-> 1, raised |-> FALSE]
                ELSE [detections |-> Min(cars, 1), raised |-> FALSE]
      [] OTHER -> [detections |-> 0, raised |-> FALSE]

\* ---------------------------------------------------------- scoring function
\* "f1 = 2 * (precision * recall) / (precision + recall) if (precision + recall) > 0 else 0.0"
f1_of(precision, recall) ==
    LET sum == RatAdd(precision, recall)
    IN  IF RatLess(Zero, sum)
        THEN RatDiv(RatMul([num |-> 2, den |-> 1], RatMul(precision, recall)), sum)
        ELSE Zero

\* calculate_detection_metrics without the max(0.0, ...) around the accuracy.
calculate_detection_metrics_unclamped(detected_count, ground_truth) ==
    LET accuracy == IF ground_truth = 0
                    THEN IF detected_count = 0 THEN One ELSE Zero
                    ELSE RatSub(One, Rat(Abs(detected_count - ground_truth), ground_truth))
        precision == IF ground_truth = 0
                     THEN IF detected_count = 0 THEN One ELSE Zero
                     ELSE IF detected_count > 0
                          THEN RatMin(One, Rat(ground_truth, detected_count))
                          ELSE Zero
        recall == IF ground_truth = 0 THEN One
                  ELSE RatMin(One, Rat(detected_count, ground_truth))
    IN  [accuracy |-> accuracy, precision |-> precision, recall |-> recall,
         f1_score |-> f1_of(precision, recall), cars_detected |-> detected_count]

\* ComprehensiveCarDetectionBenchmark.calculate_detection_metrics (enhanced
\* worker); detected_count = len(detections).
calculate_detection_metrics(detected_count, ground_truth) ==
    LET accuracy == IF ground_truth = 0
                    THEN IF detected_count = 0 THEN One ELSE Zero
                    ELSE RatMax(Zero, RatSub(One, Rat(Abs(detected_count - ground_truth),
                                                      ground_truth)))
        precision == IF ground_truth = 0
                     THEN IF detected_count = 0 THEN One ELSE Zero
                     ELSE IF detected_count > 0
                          THEN RatMin(One, Rat(ground_truth, detected_count))
                          ELSE Zero
        recall == IF ground_truth = 0 THEN One
                  ELSE RatMin(One, Rat(detected_count, ground_truth))
    IN  [accuracy |-> accuracy, precision |-> precision, recall |-> recall,
         f1_score |-> f1_of(precision, recall), cars_detected |-> detected_count]

\* CarDetectionBenchmark.calculate_accuracy_metrics (basic worker);
\* predicted_count = len(predictions).
calculate_accuracy_metrics(predicted_count, ground_truth) ==
    LET accuracy == RatMax(Zero, RatSub(One, Rat(Abs(predicted_count - ground_truth),
                                                 Max(ground_truth, 1))))
        precision == IF ground_truth > 0
                     THEN IF predicted_count > 0
                          THEN RatMin(One, Rat(predicted_count, ground_truth))
                          ELSE Zero
                     ELSE IF predicted_count = 0 THEN One ELSE Zero
        recall == IF ground_truth > 0
                  THEN RatMin(One, Rat(predicted_count, ground_truth))
                  ELSE IF predicted_count = 0 THEN One ELSE Zero
    IN  [accuracy |-> accuracy, precision |-> precision, recall |-> recall,
         f1_score |-> f1_of(precision, recall)]

\* The scoring function of worker w.
scoring_function(w, count, ground_truth) ==
    IF w = "enhanced"
    THEN calculate_detection_metrics(count, ground_truth)
    ELSE calculate_accuracy_metrics(count, ground_truth)

\* ------------------------------------- direct callers of the scoring function
NoCall == [called |-> FALSE]

\* One call of the worker's scoring function with count detections against
\* ground_truth.
CallScoring(count, ground_truth) ==
    /\ scored' = [called |-> TRUE, count |-> count, ground_truth |-> ground_truth,
                  out |-> scoring_function(worker, count, ground_truth)]
    /\ UNCHANGED <<worker, job, cuda_available, hpc, bm, metrics_a, metrics_b, result,
                   loaderVars, monitorVars, database, callers>>

\* --------------------------------------------------------------- green score
\* calculate_green_score without the min(...) caps on the partial scores and
\* without the final clamp.
calculate_green_score_enhanced_unbounded(carbon_emissions, accuracy, speed_ms, memory_mb) ==
    LET carbon == IF RatLess(Zero, carbon_emissions) THEN carbon_emissions ELSE Rat(1, 1000)
        speed == IF RatLess(Zero, speed_ms) THEN speed_ms ELSE One
        memory == IF RatLess(Zero, memory_mb) THEN memory_mb ELSE Rat(100, 1)
        accuracy_score == RatMul(accuracy, Rat(40, 1))
        speed_score == RatMul(Rat(30, 1), RatDiv(Rat(1000, 1), speed))
        memory_score == RatMul(Rat(20, 1), RatDiv(Rat(1000, 1), memory))
        carbon_score == RatMul(Rat(10, 1), RatDiv(Rat(1, 10), carbon))
    IN  RatAdd(RatAdd(accuracy_score, speed_score), RatAdd(memory_score, carbon_score))

\* calculate_green_score with 10000.0 in the place of 100.0 as the value a
\* non-positive memory_mb is replaced by.
calculate_green_score_enhanced_other_floor(carbon_emissions, accuracy, speed_ms, memory_mb) ==
    LET carbon == IF RatLess(Zero, carbon_emissions) THEN carbon_emissions ELSE Rat(1, 1000)
        speed == IF RatLess(Zero, speed_ms) THEN speed_ms ELSE One
        memory == IF RatLess(Zero, memory_mb) THEN memory_mb ELSE Rat(10000, 1)
        accuracy_score == RatMul(accuracy, Rat(40, 1))
        speed_score == RatMin(Rat(30, 1), RatMul(Rat(30, 1), RatDiv(Rat(1000, 1), speed)))
        memory_score == RatMin(Rat(20, 1), RatMul(Rat(20, 1), RatDiv(Rat(1000, 1), memory)))
        carbon_score == RatMin(Rat(10, 1), RatMul(Rat(10, 1), RatDiv(Rat(1, 10), carbon)))
        green_score == RatAdd(RatAdd(accuracy_score, speed_score),
                              RatAdd(memory_score, carbon_score))
    IN  RatMin(Rat(100, 1), RatMax(Zero, green_score))

\* ComprehensiveCarDetectionBenchmark.calculate_green_score (enhanced worker).
calculate_green_score_enhanced(carbon_emissions, accuracy, speed_ms, memory_mb) ==
    LET carbon == IF RatLess(Zero, carbon_emissions) THEN carbon_emissions ELSE Rat(1, 1000)
        speed == IF RatLess(Zero, speed_ms) THEN speed_ms ELSE One
        memory == IF RatLess(Zero, memory_mb) THEN memory_mb ELSE Rat(100, 1)
        accuracy_score == RatMul(accuracy, Rat(40, 1))
        speed_score == RatMin(Rat(30, 1), RatMul(Rat(30, 1), RatDiv(Rat(1000, 1), speed)))
        memory_score == RatMin(Rat(20, 1), RatMul(Rat(20, 1), RatDiv(Rat(1000, 1), memory)))
        carbon_score == RatMin(Rat(10, 1), RatMul(Rat(10, 1), RatDiv(Rat(1, 10), carbon)))
        green_score == RatAdd(RatAdd(accuracy_score, speed_score),
                              RatAdd(memory_score, carbon_score))
    IN  RatMin(Rat(100, 1), RatMax(Zero, green_score))

\* CarDetectionBenchmark.calculate_green_score (basic worker) for speed_ms # 0.
calculate_green_score_basic(carbon_emissions, accuracy, speed_ms) ==
    LET carbon == IF RatLess(Zero, carbon_emissions) THEN carbon_emissions ELSE Rat(1, 1000)
        efficiency == RatDiv(accuracy, RatDiv(RatMul(carbon, speed_ms), Rat(1000, 1)))
    IN  RatMin(Rat(100, 1), RatMul(efficiency, Rat(10, 1)))

\* calculate_green_score of worker w as a call: what it returns, or that it
\* raises.  The basic worker's takes no memory_mb, and its division by
\* carbon_emissions * speed_ms / 1000 raises ZeroDivisionError for speed_ms = 0.
calculate_green_score(w, carbon_emissions, accuracy, speed_ms, memory_mb) ==
    IF w = "enhanced"
    THEN [raised |-> FALSE,
          out |-> calculate_green_score_enhanced(carbon_emissions, accuracy, speed_ms, memory_mb)]
    ELSE IF speed_ms = Zero
    THEN [raised |-> TRUE, out |-> Zero]
    ELSE [raised |-> FALSE,
          out |-> calculate_green_score_basic(carbon_emissions, accuracy, speed_ms)]

\* ---------------------------------- direct callers of calculate_green_score
\* One call of the worker's calculate_green_score.
CallGreenScore(carbon_emissions, accuracy, speed_ms, memory_mb) ==
    /\ scored' = [called |-> TRUE, carbon_emissions |-> carbon_emissions,
                  accuracy |-> accuracy, speed_ms |-> speed_ms,
                  memory_mb |-> IF worker = "enhanced" THEN memory_mb ELSE Zero,
                  green |-> calculate_green_score(worker, carbon_emissions, accuracy,
                                                  speed_ms, memory_mb)]
    /\ UNCHANGED <<worker, job, cuda_available, hpc, bm, metrics_a, metrics_b, result,
                   loaderVars, monitorVars, database, callers>>

\* ------------------------------------------------------------ benchmark_model
IdleRun(id) ==
    [pc |-> "idle", id |-> id, model_name |-> "unknown_model", model |-> NoHandle,
     idx |-> 1, inference_count |-> 0, all_detections |-> 0, total_ground_truth |-> 0,
     detections |-> 0, detect_raised |-> FALSE, exc |-> "none",
     total_accuracy |-> Zero, total_precision |-> Zero, total_recall |-> Zero,
     total_f1 |-> Zero, image_log |-> <<>>,
     monitor_started |-> FALSE, aggregated |-> FALSE, metrics |-> [unset |-> TRUE]]

\* benchmark_model without the finally clause.
except_pc_no_finally(w) == "raised"

\* Where control goes when an exception leaves the try block: the enhanced worker
\* has a finally clause, the basic worker re-raises at once.
except_pc(w) == IF w = "enhanced" THEN "finally" ELSE "raised"

RunModelName == IF hpc = "bench_a" THEN job.model_a ELSE job.model_b

\* benchmark_model up to the try block: fresh metrics, start_monitoring.
BenchStart(mem) ==
    /\ hpc \in {"bench_a", "bench_b"}
    /\ bm.pc = "idle"
    /\ start_monitoring(worker, mem)
    /\ bm' = [bm EXCEPT !.pc = "load", !.model_name = RunModelName, !.monitor_started = TRUE]
    /\ UNCHANGED <<worker, job, cuda_available, scored, hpc, metrics_a, metrics_b, result,
                   loaderVars, database, callers>>

\* "model = self.model_loader.load_model(model_name)"
BenchLoad(framework_ok) ==
    /\ bm.pc = "load"
    /\ LET r == load_model(worker, model_cache, next_handle, bm.model_name, framework_ok)
       IN  /\ model_cache' = r.cache
           /\ next_handle' = r.next_handle
           /\ load_log' = Append(load_log, LogEntry(bm.model_name, r))
           /\ bm' = IF r.outcome \in {"hit", "built"}
                    THEN [bm EXCEPT !.pc = "images", !.model = r.handle]
                    ELSE [bm EXCEPT !.pc = except_pc(worker), !.exc = LoadError(r.outcome)]
    /\ UNCHANGED <<worker, job, cuda_available, scored, hpc, metrics_a, metrics_b, result,
                   monitorVars, database, callers>>

\* One iteration of "for image_data in images_data": preprocess_image (raises
\* for a reference that cannot be opened), in the basic worker update_metrics,
\* detect_cars, and the accumulation: the enhanced worker pools the detections
\* and the ground truth, the basic worker scores the image and adds the scores
\* to its running sums.  image_log records what each processed image yielded.
BenchImage(cars, fail_at, mem, fault) ==
    /\ bm.pc = "images"
    /\ bm.idx <= Len(get_images_data(job))
    /\ LET img == get_images_data(job)[bm.idx]
           d == detect_cars(worker, ModelType(bm.model_name), cars, fail_at)
           accuracy_metrics == calculate_accuracy_metrics(d.detections, img.ground_truth_cars)
           logged == [bm EXCEPT !.idx = @ + 1,
                                !.inference_count = @ + 1,
                                !.detections = d.detections,
                                !.detect_raised = d.raised,
                                !.image_log = Append(@, [detections |-> d.detections,
                                                         ground_truth |-> img.ground_truth_cars])]
           counted == IF worker = "enhanced"
                      THEN [logged EXCEPT !.all_detections = @ + d.detections,
                                          !.total_ground_truth = @ + img.ground_truth_cars]
                      ELSE [logged EXCEPT !.all_detections = @ + d.detections,
                                          !.total_ground_truth = @ + img.ground_truth_cars,
                                          !.total_accuracy = RatAdd(@, accuracy_metrics.accuracy),
                                          !.total_precision = RatAdd(@, accuracy_metrics.precision),
                                          !.total_recall = RatAdd(@, accuracy_metrics.recall),
                                          !.total_f1 = RatAdd(@, accuracy_metrics.f1_score)]
       IN  IF ~img.valid
           THEN /\ bm' = [bm EXCEPT !.pc = except_pc(worker), !.exc = "ImageDecodeError"]
                /\ UNCHANGED monitorVars
           ELSE IF worker = "enhanced"
           THEN /\ bm' = counted
                /\ UNCHANGED monitorVars
           ELSE /\ fault = "gpu" => cuda_available
                /\ take_sample(mem, fault)
                /\ bm' = IF fault = "none"
                         THEN counted
                         ELSE [bm EXCEPT !.pc = except_pc(worker), !.exc = "SampleError"]
                /\ UNCHANGED <<monitoring, monitor_thread, threads, initial_memory, monitor_log>>
    /\ UNCHANGED <<worker, job, cuda_available, scored, hpc, metrics_a, metrics_b, result,
                   loaderVars, database, callers>>

\* aggregate_scores with the basic worker's sums left undivided.
aggregate_scores_no_mean(w, run, num_images) ==
    IF w = "enhanced"
    THEN LET detection_metrics ==
                 calculate_detection_metrics(run.all_detections, run.total_ground_truth)
         IN  [accuracy |-> detection_metrics.accuracy,
              precision |-> detection_metrics.precision,
              recall |-> detection_metrics.recall,
              f1_score |-> detection_metrics.f1_score]
    ELSE [accuracy |-> run.total_accuracy,
          precision |-> run.total_precision,
          recall |-> run.total_recall,
          f1_score |-> run.total_f1]

\* The detection scores of a finished loop: the enhanced worker scores the
\* pooled detections against the summed ground truth, the basic worker divides
\* its running sums by len(images_data).
aggregate_scores(w, run, num_images) ==
    IF w = "enhanced"
    THEN LET detection_metrics ==
                 calculate_detection_metrics(run.all_detections, run.total_ground_truth)
         IN  [accuracy |-> detection_metrics.accuracy,
              precision |-> detection_metrics.precision,
              recall |-> detection_metrics.recall,
              f1_score |-> detection_metrics.f1_score]
    ELSE [accuracy |-> RatDiv(run.total_accuracy, Rat(num_images, 1)),
          precision |-> RatDiv(run.total_precision, Rat(num_images, 1)),
          recall |-> RatDiv(run.total_recall, Rat(num_images, 1)),
          f1_score |-> RatDiv(run.total_f1, Rat(num_images, 1))]

\* The code after the loop: means, get_metrics, the derived figures.  speed is
\* the mean of the measured inference times (positive) when at least one image
\* was timed, carbon the emissions the tracker or the energy estimate yields.
\* For an empty images_data the enhanced worker takes 0.0 as the mean inference
\* time, and the basic worker divides its sums by len(images_data) = 0, which
\* raises ZeroDivisionError inside the try block.
BenchAggregate(speed, carbon) ==
    /\ bm.pc = "images"
    /\ bm.idx > Len(get_images_data(job))
    /\ LET num_images == Len(get_images_data(job))
           sys == get_metrics
           scores == aggregate_scores(worker, bm, num_images)
           speed_ms == IF bm.inference_count = 0 THEN Zero ELSE speed
           memory_mb == Rat(sys.peak_memory_mb, 1)
           m == [inference_count |-> bm.inference_count,
                 cars_detected |-> bm.all_detections,
                 accuracy |-> scores.accuracy,
                 precision |-> scores.precision,
                 recall |-> scores.recall,
                 f1_score |-> scores.f1_score,
                 speed_ms |-> speed_ms,
                 throughput_fps |-> IF RatLess(Zero, speed_ms)
                                    THEN RatDiv([num |-> 1000, den |-> 1], speed_ms)
                                    ELSE Zero,
                 carbon_emissions |-> carbon,
                 green_score |-> IF worker = "enhanced"
                                 THEN calculate_green_score_enhanced(carbon, scores.accuracy,
                                                                     speed_ms, memory_mb)
                                 ELSE calculate_green_score_basic(carbon, scores.accuracy, speed_ms),
                 peak_memory_mb |-> sys.peak_memory_mb,
                 cpu_samples |-> sys.cpu_samples,
                 gpu_samples |-> sys.gpu_samples]
       IN  IF worker = "basic" /\ num_images = 0
           THEN bm' = [bm EXCEPT !.pc = except_pc(worker), !.exc = "ZeroDivisionError"]
           ELSE bm' = [bm EXCEPT !.pc = IF worker = "enhanced" THEN "finally" ELSE "returned",
                                 !.aggregated = TRUE, !.metrics = m]
    /\ UNCHANGED <<worker, job, cuda_available, scored, hpc, metrics_a, metrics_b, result,
                   loaderVars, monitorVars, database, callers>>

\* The finally clause: self.monitor.stop_monitoring(), first the flag ...
BenchStop ==
    /\ bm.pc = "finally"
    /\ stop_monitoring
    /\ bm' = [bm EXCEPT !.pc = "join"]
    /\ UNCHANGED <<worker, job, cuda_available, scored, hpc, metrics_a, metrics_b, result,
                   loaderVars, database, callers>>

\* ... then the bounded join, after which benchmark_model returns its metrics
\* or lets the exception go on to the caller.
BenchJoin(timed_out) ==
    /\ bm.pc = "join"
    /\ monitor_thread # 0 => join_returns(threads[monitor_thread].pc, timed_out)
    /\ bm' = [bm EXCEPT !.pc = IF bm.exc = "none" THEN "returned" ELSE "raised"]
    /\ UNCHANGED <<worker, job, cuda_available, scored, hpc, metrics_a, metrics_b, result,
                   loaderVars, monitorVars, database, callers>>

\* ------------------------------------------------------------------ database
NewDatabase ==
    [connection |-> FALSE, executed |-> 0, rows |-> 0, rollbacks |-> 0,
     row_winner |-> "none", save_success |-> "not called"]

\* DatabaseIntegration.connect: True with an open connection, or False.
connect(db, reachable) == [db EXCEPT !.connection = reachable]

\* What can go wrong in a save: cursor.execute raises, connection.commit raises,
\* or the connection opened before the two runs has been closed by the server in
\* the meantime ("connection"): then cursor.execute raises and so does
\* connection.rollback() in the except clause.
SaveFaults == {"none", "execute", "commit", "connection"}

\* The winner column of the row: by accuracy alone, 'tie' when equal.
row_winner_of(ma, mb) ==
    IF RatLess(mb.accuracy, ma.accuracy) THEN "model_a"
    ELSE IF RatLess(ma.accuracy, mb.accuracy) THEN "model_b"
    ELSE "tie"

\* DatabaseIntegration.save_benchmark_results: the winner by accuracy, one
\* INSERT and one commit; an exception from either is answered by rollback and
\* False, and an exception from rollback itself leaves the method.  executed
\* counts the INSERTs that reached the database, rows the committed ones.
save_benchmark_results(db, ma, mb, fault) ==
    IF ~db.connection THEN [db |-> db, saved |-> FALSE, raised |-> FALSE]
    ELSE IF fault = "none"
    THEN [db |-> [db EXCEPT !.executed = @ + 1, !.rows = @ + 1,
                            !.row_winner = row_winner_of(ma, mb)],
          saved |-> TRUE, raised |-> FALSE]
    ELSE IF fault = "execute"
    THEN [db |-> [db EXCEPT !.rollbacks = @ + 1], saved |-> FALSE, raised |-> FALSE]
    ELSE IF fault = "commit"
    THEN [db |-> [db EXCEPT !.executed = @ + 1, !.rollbacks = @ + 1,
                            !.row_winner = row_winner_of(ma, mb)],
          saved |-> FALSE, raised |-> FALSE]
    ELSE [db |-> [db EXCEPT !.rollbacks = @ + 1], saved |-> FALSE, raised |-> TRUE]

\* ------------------------------------------------------------------- handler
NoMetrics == [unset |-> TRUE]

NoResult == [pending |-> TRUE]

\* The result returned for an empty or missing images_data.
no_images_result(w) ==
    IF w = "enhanced"
    THEN [error |-> "No images provided for benchmarking", status |-> "failed"]
    ELSE [error |-> "No images provided for benchmarking"]

\* An except clause that hands back the metrics gathered so far.
failed_result_partial(w, exc) ==
    IF w = "enhanced"
    THEN [error |-> exc, status |-> "failed", timestamp |-> "now",
          comparison |-> [modelA |-> [metrics |-> metrics_a]]]
    ELSE [error |-> exc, model_a_metrics |-> metrics_a]

\* The result built by the handler's "except Exception as e".
failed_result(w, exc) ==
    IF w = "enhanced"
    THEN [error |-> exc, status |-> "failed", timestamp |-> "now"]
    ELSE [error |-> exc]

\* composite_score without the speed term.
composite_score_no_speed(m) ==
    RatAdd(RatMul(m.accuracy, Rat(4, 10)),
           RatMul(RatDiv(m.green_score, Rat(100, 1)), Rat(3, 10)))

\* The composite score of the enhanced handler.
composite_score(m) ==
    LET tenths(n) == [num |-> n, den |-> 10]
        whole(n) == [num |-> n, den |-> 1]
    IN  RatAdd(RatAdd(RatMul(m.accuracy, tenths(4)),
                      RatMul(RatDiv(whole(1000), RatMax(m.speed_ms, One)), tenths(3))),
               RatMul(RatDiv(m.green_score, whole(100)), tenths(3)))

\* composite_winner with the two comparisons the wrong way round.
composite_winner_flipped(a, b, ma, mb) ==
    LET score_a == composite_score(ma)
        score_b == composite_score(mb)
    IN  IF RatLess(score_a, score_b) THEN a
        ELSE IF RatLess(score_b, score_a) THEN b
        ELSE "Tie"

\* The enhanced handler's winner: the model with the greater composite score,
\* "Tie" when the scores are equal.
composite_winner(a, b, ma, mb) ==
    LET score_a == composite_score(ma)
        score_b == composite_score(mb)
    IN  IF RatLess(score_b, score_a) THEN a
        ELSE IF RatLess(score_a, score_b) THEN b
        ELSE "Tie"

\* The basic handler's winner: "Model A" if metrics_a.f1_score > metrics_b.f1_score
\* else "Model B".
f1_winner(ma, mb) ==
    IF RatLess(mb.f1_score, ma.f1_score) THEN "Model A" ELSE "Model B"

\* The result of a comparison that ran to the end.
completed_result(w, a, b, ma, mb) ==
    IF w = "enhanced"
    THEN [status |-> "completed",
          comparison |-> [winner |-> composite_winner(a, b, ma, mb),
                          modelA |-> [name |-> a, metrics |-> ma],
                          modelB |-> [name |-> b, metrics |-> mb]],
          test_summary |-> [total_images |-> Len(get_images_data(job)), timestamp |-> "now"]]
    ELSE [model_a_id |-> a, model_b_id |-> b,
          model_a_metrics |-> ma, model_b_metrics |-> mb,
          winner |-> f1_winner(ma, mb),
          timestamp |-> "now"]

\* handler up to the first benchmark: input parsing, the images_data test and,
\* in the enhanced worker, database.connect().
HandlerValidate(reachable) ==
    /\ hpc = "start"
    /\ IF images_missing(get_images_data(job))
       THEN /\ result' = no_images_result(worker)
            /\ hpc' = "done"
            /\ UNCHANGED database
       ELSE /\ hpc' = "bench_a"
            /\ database' = IF worker = "enhanced" THEN connect(database, reachable) ELSE database
            /\ UNCHANGED result
    /\ UNCHANGED <<worker, job, cuda_available, scored, bm, metrics_a, metrics_b,
                   loaderVars, monitorVars, callers>>

\* HandlerCollect with one metrics record shared by the two runs: what run B
\* returns is also what metrics_a refers to.
HandlerCollect_shared_record ==
    /\ hpc \in {"bench_a", "bench_b"}
    /\ bm.pc = "returned"
    /\ IF hpc = "bench_a"
       THEN /\ metrics_a' = bm.metrics
            /\ hpc' = "bench_b"
            /\ bm' = IdleRun(2)
            /\ UNCHANGED metrics_b
       ELSE /\ metrics_b' = bm.metrics
            /\ metrics_a' = bm.metrics
            /\ hpc' = "compare"
            /\ UNCHANGED bm
    /\ UNCHANGED <<worker, job, cuda_available, scored, result, loaderVars, monitorVars,
                   database, callers>>

\* benchmark_model returned: the handler keeps the metrics and goes on.
HandlerCollect ==
    /\ hpc \in {"bench_a", "bench_b"}
    /\ bm.pc = "returned"
    /\ IF hpc = "bench_a"
       THEN /\ metrics_a' = bm.metrics
            /\ hpc' = "bench_b"
            /\ bm' = IdleRun(2)
            /\ UNCHANGED metrics_b
       ELSE /\ metrics_b' = bm.metrics
            /\ hpc' = "compare"
            /\ UNCHANGED <<metrics_a, bm>>
    /\ UNCHANGED <<worker, job, cuda_available, scored, result, loaderVars, monitorVars,
                   database, callers>>

\* benchmark_model raised: the handler's except clause returns the error.
HandlerExcept ==
    /\ hpc \in {"bench_a", "bench_b"}
    /\ bm.pc = "raised"
    /\ result' = failed_result(worker, bm.exc)
    /\ hpc' = "done"
    /\ UNCHANGED <<worker, job, cuda_available, scored, bm, metrics_a, metrics_b,
                   loaderVars, monitorVars, database, callers>>

\* The rest of handler: the winner, the result and, in the enhanced worker with
\* a connection, save_benchmark_results, whose return value is only logged; an
\* exception leaving save_benchmark_results reaches "except Exception as e".
\* Without a save there is nothing for fault to act on.
HandlerFinish(fault) ==
    /\ hpc = "compare"
    /\ (worker = "enhanced" /\ database.connection) \/ fault = "none"
    /\ LET results == completed_result(worker, job.model_a, job.model_b, metrics_a, metrics_b)
           save == save_benchmark_results(database, metrics_a, metrics_b, fault)
       IN  IF worker = "enhanced" /\ database.connection
           THEN /\ database' = [save.db EXCEPT !.save_success =
                                    IF save.raised THEN "raised"
                                    ELSE IF save.saved THEN "True" ELSE "False"]
                /\ result' = IF save.raised
                             THEN failed_result(worker, "InterfaceError")
                             ELSE results
           ELSE /\ database' = database
                /\ result' = results
    /\ hpc' = "done"
    /\ UNCHANGED <<worker, job, cuda_available, scored, bm, metrics_a, metrics_b,
                   loaderVars, monitorVars, callers>>

\* ------------------------------------------------------------ specifications
InitLoader ==
    /\ model_cache = EmptyCache
    /\ next_handle = 1
    /\ load_log = <<>>

InitMonitor ==
    /\ monitoring = FALSE
    /\ monitor_thread = 0
    /\ threads = <<>>
    /\ initial_memory = 1
    /\ peak_memory = 1
    /\ cpu_readings = <<>>
    /\ gpu_memory_readings = <<>>
    /\ run_peak = 0
    /\ monitor_log = <<>>

InitRest ==
    /\ hpc = "start"
    /\ scored = NoCall
    /\ bm = IdleRun(1)
    /\ metrics_a = NoMetrics
    /\ metrics_b = NoMetrics
    /\ result = NoResult
    /\ database = NewDatabase
    /\ callers = [c \in Callers |-> IdleCaller]
    /\ InitLoader
    /\ InitMonitor

\* One handler(job) invocation over every job input, with every load, detection
\* and persistence outcome.  Each run is shorter than the sampling thread takes
\* to get to its first sample: the thread is started, sleeps, and leaves its
\* loop once the flag is cleared (SpecMonitoring covers the sampling).  Every
\* run measures the same mean inference time, and every image has the ground
\* truth image_data.get('ground_truth_cars', 1) defaults to (SpecWinner covers
\* the speeds and the ground truths).
DefaultTruthJobs ==
    {j \in JobInputs :
        \A k \in 1..Len(j.images_data) : j.images_data[k].ground_truth_cars = 1}

Init ==
    /\ worker \in Workers
    /\ job \in DefaultTruthJobs
    /\ cuda_available = FALSE
    /\ InitRest

\* Mean inference times (ms): one below the 1 ms floor of the composite score,
\* one above it.
Speeds == {Rat(1, 2), Rat(500, 1)}

HandlerStep(oks, mems, faults, counts, failures, reach, speeds, carbons) ==
    \/ \E reachable \in reach : HandlerValidate(reachable)
    \/ \E mem \in mems : BenchStart(mem)
    \/ \E ok \in oks : BenchLoad(ok)
    \/ \E cars \in counts, fail_at \in failures, mem \in mems, fault \in faults :
          /\ fail_at <= cars
          /\ BenchImage(cars, fail_at, mem, fault)
    \/ \E speed \in speeds, carbon \in carbons : BenchAggregate(speed, carbon)
    \/ BenchStop
    \/ \E timed_out \in BOOLEAN : BenchJoin(timed_out)
    \/ HandlerCollect
    \/ HandlerExcept
    \/ \E fault \in SaveFaults : HandlerFinish(fault)

MonitorStep(mems, faults) ==
    \/ \E i \in 1..2 : MonitorLoopCheck(i, MaxSamples)
    \/ \E i \in 1..2, mem \in mems, fault \in faults : MonitorLoopSample(i, mem, fault)

Next ==
    \/ HandlerStep(BOOLEAN, {1}, {"none"}, 0..MaxCars, NoFailure..MaxCars, BOOLEAN,
                   {Rat(500, 1)}, {Rat(1, 100)})
    \/ \E i \in 1..2 : MonitorLoopCheck(i, 0)

Spec == Init /\ [][Next]_vars

\* One handler(job) invocation comparing two loadable models over one valid
\* image, with every sampling outcome: memory levels, failing queries, with and
\* without CUDA.  Loading and detection do not fail and no database is
\* configured.
MonitorJobs ==
    {j \in JobInputs :
        /\ j.model_a = "Trained_yolov5"
        /\ j.model_b \in {"Trained_yolov5", "efficientnet_b0"}
        /\ j.images_data = <<[valid |-> TRUE, ground_truth_cars |-> 1]>>}

InitMonitoring ==
    /\ worker \in Workers
    /\ job \in MonitorJobs
    /\ cuda_available \in BOOLEAN
    /\ InitRest

NextMonitoring ==
    \/ HandlerStep({TRUE}, MemValues, SampleFaults, {1}, {NoFailure}, {FALSE},
                   {Rat(500, 1)}, {Rat(1, 100)})
    \/ MonitorStep(MemValues, SampleFaults)

SpecMonitoring == InitMonitoring /\ [][NextMonitoring]_vars

\* One handler(job) invocation comparing two loadable models over one valid
\* image, with every ground truth, every detection count, both mean inference
\* times, every load outcome and every persistence outcome.  Detection does not
\* fail.
WinnerJobs ==
    {j \in JobInputs :
        /\ j.model_a = "Trained_yolov5"
        /\ j.model_b \in {"Trained_yolov5", "efficientnet_b0"}
        /\ Len(j.images_data) = 1
        /\ j.images_data[1].valid}

InitWinner ==
    /\ worker \in Workers
    /\ job \in WinnerJobs
    /\ cuda_available = FALSE
    /\ InitRest

NextWinner ==
    \/ HandlerStep(BOOLEAN, {1}, {"none"}, 0..MaxCars, {NoFailure}, BOOLEAN,
                   Speeds, {Rat(1, 100)})
    \/ \E i \in 1..2 : MonitorLoopCheck(i, 0)

SpecWinner == InitWinner /\ [][NextWinner]_vars

\* A sequence of load_model calls on one loader.
DefaultJob ==
    [model_a |-> "Trained_yolov5", model_b |-> "efficientnet_b0",
     has_images |-> FALSE, images_data |-> <<>>]

InitLoad ==
    /\ worker \in Workers
    /\ job = DefaultJob
    /\ cuda_available = FALSE
    /\ InitRest

NextLoad ==
    \E name \in ModelNames, ok \in BOOLEAN : CallLoadModel(1, name, ok)

SpecLoad == InitLoad /\ [][NextLoad]_vars

\* Two threads calling load_model on the shared loader.
NextConc ==
    \/ \E c \in Callers, name \in ModelNames : CallLookup(c, name)
    \/ \E c \in Callers, ok \in BOOLEAN : CallConstruct(c, ok)

SpecConc == InitLoad /\ [][NextConc]_vars

\* Direct calls of the scoring function of either worker over every detection
\* count and ground truth within the bounds.
NextScoring ==
    \E count \in 0..MaxDetected, ground_truth \in 0..MaxTruth :
        CallScoring(count, ground_truth)

SpecScoring == InitLoad /\ [][NextScoring]_vars

\* The end of handler over given metric records: the winner, the result and the
\* save.  The records are those of the job simulated in test_worker.py, and
\* variants of them with other speeds and accuracies.
SimulatedMetricsA ==
    [inference_count |-> 3, cars_detected |-> 3,
     accuracy |-> Rat(87, 100), precision |-> Rat(89, 100), recall |-> Rat(81, 100),
     f1_score |-> Rat(85, 100), speed_ms |-> Rat(423, 10),
     throughput_fps |-> Rat(236, 10), carbon_emissions |-> Rat(12, 10000), green_score |-> Rat(784, 10),
     peak_memory_mb |-> 486, cpu_samples |-> <<>>, gpu_samples |-> <<>>]

SimulatedMetricsB ==
    [inference_count |-> 3, cars_detected |-> 3,
     accuracy |-> Rat(82, 100), precision |-> Rat(84, 100), recall |-> Rat(75, 100),
     f1_score |-> Rat(79, 100), speed_ms |-> Rat(387, 10),
     throughput_fps |-> Rat(258, 10), carbon_emissions |-> Rat(9, 10000), green_score |-> Rat(821, 10),
     peak_memory_mb |-> 420, cpu_samples |-> <<>>, gpu_samples |-> <<>>]

MetricSamples ==
    {SimulatedMetricsA, SimulatedMetricsB}
    \cup {[SimulatedMetricsA EXCEPT !.speed_ms = speed] : speed \in {Rat(1, 2), Rat(3, 4)}}
    \cup {[SimulatedMetricsB EXCEPT !.accuracy = Rat(87, 100), !.f1_score = Rat(85, 100)]}

CompareJob ==
    [model_a |-> "Trained_yolov5", model_b |-> "efficientnet_b0", has_images |-> TRUE,
     images_data |-> <<[valid |-> TRUE, ground_truth_cars |-> 1]>>]

InitCompare ==
    /\ worker \in Workers
    /\ job = CompareJob
    /\ cuda_available = FALSE
    /\ scored = NoCall
    /\ hpc = "compare"
    /\ bm = IdleRun(2)
    /\ metrics_a \in MetricSamples
    /\ metrics_b \in MetricSamples
    /\ result = NoResult
    /\ database \in {connect(NewDatabase, reachable) : reachable \in BOOLEAN}
    /\ callers = [c \in Callers |-> IdleCaller]
    /\ InitLoader
    /\ InitMonitor

NextCompare == \E fault \in SaveFaults : HandlerFinish(fault)

SpecCompare == InitCompare /\ [][NextCompare]_vars

\* One handler(job) invocation in which the main thread always takes its next
\* step, while nothing is assumed of the sampling threads: one may stay in a
\* query or asleep for ever.  Loads may fail; images, detection and the resource
\* queries do not, and no database is configured.
HandlerStop ==
    HandlerStep(BOOLEAN, {1}, {"none"}, {1}, {NoFailure}, {FALSE},
                {Rat(500, 1)}, {Rat(1, 100)})

NextStop ==
    \/ HandlerStop
    \/ MonitorStep({1}, {"none"})

\* The main thread has a step to take: the guards of the actions of HandlerStop.
\* In the join it has one when join(timeout=1.0) returns.
HandlerCanStep ==
    \/ hpc = "start"
    \/ hpc \in {"bench_a", "bench_b"} /\ bm.pc \in {"idle", "returned", "raised"}
    \/ bm.pc \in {"load", "images", "finally"}
    \/ /\ bm.pc = "join"
       /\ monitor_thread # 0
             => \E timed_out \in BOOLEAN : join_returns(threads[monitor_thread].pc, timed_out)
    \/ hpc = "compare"

\* Weak fairness of the main thread, WF_vars(HandlerStop), written out with
\* HandlerCanStep for ENABLED <<HandlerStop>>_vars.
SpecStop ==
    /\ InitMonitoring
    /\ [][NextStop]_vars
    /\ ([]<>(~HandlerCanStep) \/ []<><<HandlerStop>>_vars)

\* Direct calls of calculate_green_score of either worker: inputs below zero,
\* zero, between zero and the floors 0.001 / 1.0 / 100, at the floors, and on
\* both sides of the values 0.1 / 1000 / 1000 up to which the partial scores are
\* capped.
GreenCarbons == {Rat(0 - 1, 1000), Zero, Rat(1, 2000), Rat(1, 1000), Rat(1, 10), One}

GreenAccuracies == {Zero, Rat(1, 2), One}

GreenSpeeds == {Rat(0 - 1, 1), Zero, Rat(1, 2), One, Rat(1000, 1), Rat(2000, 1)}

GreenMemories == {Rat(0 - 1, 1), Zero, Rat(50, 1), Rat(100, 1), Rat(1000, 1), Rat(2000, 1)}

NextGreen ==
    \E carbon_emissions \in GreenCarbons, accuracy \in GreenAccuracies,
       speed_ms \in GreenSpeeds, memory_mb \in GreenMemories :
        CallGreenScore(carbon_emissions, accuracy, speed_ms, memory_mb)

SpecGreen == InitLoad /\ [][NextGreen]_vars

\* One direct call of benchmark_model(model_name, images_data) on the global
\* benchmark object for the YOLO detector, over every batch within the bounds
\* (the empty one included, which handler never passes on), every ground truth
\* from 0 and every detection count.  Images can be opened and detection does
\* not fail.
RunTruths == 0..(MaxGroundTruth + 1)

RunCars == 0..(MaxCars + 1)

RunJobs ==
    [model_a : {"Trained_yolov5"}, model_b : {"efficientnet_b0"}, has_images : {TRUE},
     images_data : SeqsUpTo([valid : {TRUE}, ground_truth_cars : RunTruths], MaxImages)]

InitRun ==
    /\ worker \in Workers
    /\ job \in RunJobs
    /\ cuda_available = FALSE
    /\ scored = NoCall
    /\ hpc = "bench_a"
    /\ bm = IdleRun(1)
    /\ metrics_a = NoMetrics
    /\ metrics_b = NoMetrics
    /\ result = NoResult
    /\ database = NewDatabase
    /\ callers = [c \in Callers |-> IdleCaller]
    /\ InitLoader
    /\ InitMonitor

NextRun ==
    \/ BenchStart(1)
    \/ \E ok \in BOOLEAN : BenchLoad(ok)
    \/ \E cars \in RunCars : BenchImage(cars, NoFailure, 1, "none")
    \/ BenchAggregate(Rat(500, 1), Rat(1, 100))
    \/ BenchStop
    \/ \E timed_out \in BOOLEAN : BenchJoin(timed_out)
    \/ \E i \in 1..2 : MonitorLoopCheck(i, 0)

SpecRun == InitRun /\ [][NextRun]_vars

\* ================================================================== claims
Images == get_images_data(job)

InvalidImages == {k \in 1..Len(Images) : ~Images[k].valid}

HasError(r) == "error" \in DOMAIN r

MetricsKeys == {"comparison", "model_a_metrics", "model_b_metrics"}

\* Positions in load_log of the calls for name n with an outcome in outs.
Calls(n, outs) == {k \in 1..Len(load_log) : load_log[k].name = n /\ load_log[k].outcome \in outs}

\* Every call for n that returned a model returned the same one.
SameHandle(n) ==
    \A i, k \in Calls(n, {"hit", "built"}) : load_log[i].handle = load_log[k].handle

\* C1: when exactly one image of the batch cannot be preprocessed and nothing
\* else fails, the job ends without an error (status completed in the enhanced
\* worker) and run A has counted every image but that one.
C1_InvalidImageSkipped ==
    (hpc = "done" /\ Cardinality(InvalidImages) = 1 /\ bm.exc \in {"none", "ImageDecodeError"})
        => /\ ~HasError(result)
           /\ worker = "enhanced" => result.status = "completed"
           /\ metrics_a # NoMetrics
           /\ metrics_a.inference_count = Len(Images) - 1

\* C2: a run for an unregistered model name never has its monitor started and
\* never aggregates; it ends with the unsupported-model error.
C2_UnregisteredNeverMonitored ==
    (bm.pc # "idle" /\ bm.model_name \notin SUPPORTED_MODELS)
        => /\ ~bm.monitor_started
           /\ ~bm.aggregated
           /\ bm.pc \in {"returned", "raised"} => bm.exc = "ValueError"

\* C3: in the enhanced worker, whenever benchmark_model has ended after starting
\* the monitor, by return or by exception, the last monitor call was
\* stop_monitoring and the monitoring flag is false.
C3_MonitorStoppedOnExit ==
    (worker = "enhanced" /\ bm.pc \in {"returned", "raised"} /\ bm.monitor_started)
        => /\ ~monitoring
           /\ Len(monitor_log) > 0
           /\ Last(monitor_log) = "stop"

C3_Witness ==
    /\ worker = "enhanced"
    /\ bm.pc = "raised"
    /\ bm.exc = "ImageDecodeError"
    /\ bm.monitor_started
    /\ ~monitoring

\* C4: a job without images never loads a model, never starts the monitor and
\* never enters a run, and what it returns carries an error (and status failed
\* in the enhanced worker).
C4_EmptyBatchFailsBeforeLoad ==
    Len(Images) = 0
        => /\ load_log = <<>>
           /\ model_cache = EmptyCache
           /\ monitor_log = <<>>
           /\ bm.pc = "idle"
           /\ hpc \in {"start", "done"}
           /\ hpc = "done" => /\ HasError(result)
                              /\ DOMAIN result \cap MetricsKeys = {}
                              /\ worker = "enhanced" => result.status = "failed"

C4_Witness ==
    /\ hpc = "done"
    /\ Len(Images) = 0
    /\ HasError(result)

\* C5: when a run ends because its model could not be loaded, in run A or in run
\* B, the job returns an error without any metrics (status failed in the
\* enhanced worker) and no statement has reached the database.
C5_LoadFailureFailsJob ==
    (hpc = "done" /\ bm.exc \in {"ValueError", "ModelLoadError"})
        => /\ HasError(result)
           /\ DOMAIN result \cap MetricsKeys = {}
           /\ worker = "enhanced" => result.status = "failed"
           /\ database.executed = 0
           /\ database.rows = 0

C5_Witness ==
    /\ worker = "enhanced"
    /\ hpc = "done"
    /\ bm.id = 2
    /\ bm.exc = "ModelLoadError"
    /\ metrics_a # NoMetrics
    /\ database.connection
    /\ HasError(result)

\* C6 as stated: for every registered name the construction path runs at most
\* once, and every load that returns a model returns the same handle.
C6_ConstructedOnce ==
    \A n \in SUPPORTED_MODELS :
        /\ Cardinality(Calls(n, {"built", "failed"})) <= 1
        /\ SameHandle(n)

\* C6 amended: for every registered name every load that returns a model returns
\* the handle of the first such load, construction succeeds at most once, and
\* after it has succeeded the construction path is never entered again; only
\* constructions that failed may come before it.
C6_CachedHandleReused ==
    \A n \in SUPPORTED_MODELS :
        /\ SameHandle(n)
        /\ Cardinality(Calls(n, {"built"})) <= 1
        /\ \A i \in Calls(n, {"built"}), k \in Calls(n, {"built", "failed"}) : k <= i

C6_Witness ==
    \E n \in SUPPORTED_MODELS :
        \E i \in Calls(n, {"built"}), k \in Calls(n, {"hit"}) :
            /\ i < k
            /\ load_log[i].handle = load_log[k].handle

\* C7: a load_model call that fails leaves the whole cache as it was, and a name
\* whose load has failed is served from the cache afterwards only if a later
\* load has constructed it in between.
C7_FailedLoadKeepsCache ==
    [][ /\ (Len(load_log') = Len(load_log) + 1
              /\ Last(load_log').outcome \in {"failed", "unsupported"})
            => model_cache' = model_cache
        /\ \A n \in ModelNames :
             \A i \in Calls(n, {"failed", "unsupported"})', k \in Calls(n, {"hit"})' :
                i < k => \E j \in Calls(n, {"built"})' : i < j /\ j < k ]_vars

C7_Witness ==
    \E n \in SUPPORTED_MODELS :
        \E i \in Calls(n, {"failed"}), k \in Calls(n, {"built"}) :
            /\ i < k
            /\ model_cache[n] = load_log[k].handle

\* C8: with two threads loading through the shared loader, a model is constructed
\* at most once per name and two callers holding a model of the same name hold
\* the same handle.
C8_SingleConstruction ==
    /\ \A n \in SUPPORTED_MODELS : Cardinality(Calls(n, {"built"})) <= 1
    /\ \A c, d \in Callers :
          (/\ callers[c].outcome \in {"hit", "built"}
           /\ callers[d].outcome \in {"hit", "built"}
           /\ callers[c].name = callers[d].name)
              => callers[c].handle = callers[d].handle

\* C9: the figures reported for model B come from samples of run B only: every
\* CPU and GPU reading behind them was taken in run B, and the peak memory is the
\* highest level sampled in run B (or the baseline when that is higher).
C9_SnapshotOfOwnRun ==
    metrics_b # NoMetrics
        => /\ \A k \in 1..Len(metrics_b.cpu_samples) : metrics_b.cpu_samples[k].run = 2
           /\ \A k \in 1..Len(metrics_b.gpu_samples) : metrics_b.gpu_samples[k].run = 2
           /\ metrics_b.peak_memory_mb = Max(initial_memory, run_peak)

\* C10: when detect_cars has met an exception for an image, it has returned no
\* detection at all for it, the run goes on, and the image is counted.
C10_FailedDetectionIsEmpty ==
    bm.detect_raised
        => /\ bm.detections = 0
           /\ bm.exc = "none"
           /\ bm.inference_count >= 1

\* x lies in [0, 1].
InUnit(x) == ~RatLess(x, Zero) /\ ~RatLess(One, x)

\* C18: for every detection count d >= 0 and ground truth t > 0 the scoring
\* function of either worker returns accuracy, precision, recall and f1 within
\* [0, 1], and f1 is 0 exactly when precision + recall is 0.
C18_ScoresInUnitRange ==
    (scored.called /\ scored.ground_truth > 0)
        => /\ InUnit(scored.out.accuracy)
           /\ InUnit(scored.out.precision)
           /\ InUnit(scored.out.recall)
           /\ InUnit(scored.out.f1_score)
           /\ (scored.out.f1_score = Zero)
                 <=> (RatAdd(scored.out.precision, scored.out.recall) = Zero)

C18_Witness ==
    /\ scored.called
    /\ scored.ground_truth > 0
    /\ scored.count > 2 * scored.ground_truth
    /\ scored.out.accuracy = Zero
    /\ scored.out.f1_score # Zero

\* The formula set of the scoring function as the specification states it.
C19_Formulas(d, t) ==
    LET a == IF t = 0 THEN (IF d = 0 THEN One ELSE Zero)
             ELSE RatMax(Zero, RatSub(One, Rat(Abs(d - t), t)))
        p == IF t = 0 THEN (IF d = 0 THEN One ELSE Zero)
             ELSE IF d > 0 THEN RatMin(One, Rat(t, d)) ELSE Zero
        r == IF t = 0 THEN One ELSE RatMin(One, Rat(d, t))
        f == IF RatLess(Zero, RatAdd(p, r))
             THEN RatDiv(RatMul(Rat(2, 1), RatMul(p, r)), RatAdd(p, r))
             ELSE Zero
    IN  [accuracy |-> a, precision |-> p, recall |-> r, f1_score |-> f]

\* C19: for every detection count d and ground truth t, the scoring function of
\* each worker returns the specified accuracy, precision, recall and f1 (so the
\* two workers agree on every input).
C19_ScoringMatchesFormulas ==
    scored.called
        => LET e == C19_Formulas(scored.count, scored.ground_truth)
           IN  /\ scored.out.accuracy = e.accuracy
               /\ scored.out.precision = e.precision
               /\ scored.out.recall = e.recall
               /\ scored.out.f1_score = e.f1_score

\* Both runs of the job have returned their metrics.
BothRunsReturned == metrics_a # NoMetrics /\ metrics_b # NoMetrics

\* C11: in the enhanced worker, once both runs have returned, whatever happens
\* to the connection or the write, the handler returns status completed with the
\* comparison (winner and both metric records) of a successful save.
C11_PersistenceFailureKeepsResult ==
    (worker = "enhanced" /\ hpc = "done" /\ BothRunsReturned)
        => /\ "status" \in DOMAIN result
           /\ result.status = "completed"
           /\ result = completed_result(worker, job.model_a, job.model_b, metrics_a, metrics_b)

\* C12: at most one INSERT is issued per handler invocation, and the database is
\* touched only after both runs have returned and the handler has its result;
\* when the INSERT or the commit raised, rollback has been called once, no row is
\* committed and save_benchmark_results has returned False.
C12_SingleTransactionalWrite ==
    /\ database.executed <= 1
    /\ database.rows <= database.executed
    /\ (database.executed + database.rollbacks > 0 \/ database.save_success # "not called")
          => (BothRunsReturned /\ hpc = "done")
    /\ (database.save_success # "not called" /\ database.rows = 0)
          => (database.rollbacks = 1 /\ database.save_success = "False")

\* C13: every result the handler returns has a status, completed or failed; a
\* completed result holds the winner and the metrics of both models; a failed
\* result holds an error and a timestamp and no metrics.
C13_ResultHasStatus ==
    hpc = "done"
        => /\ result # NoResult
           /\ "status" \in DOMAIN result
           /\ result.status \in {"completed", "failed"}
           /\ result.status = "completed"
                 => /\ "comparison" \in DOMAIN result
                    /\ "winner" \in DOMAIN result.comparison
                    /\ result.comparison.modelA.metrics = metrics_a
                    /\ result.comparison.modelB.metrics = metrics_b
                    /\ BothRunsReturned
           /\ result.status = "failed"
                 => /\ {"error", "timestamp"} \subseteq DOMAIN result
                    /\ DOMAIN result \cap MetricsKeys = {}

\* The composite score as the specification states it:
\* accuracy*0.4 + (1000/max(speed_ms,1))*0.3 + (green_score/100)*0.3.
C14_Score(m) ==
    LET speed == IF RatLess(m.speed_ms, One) THEN One ELSE m.speed_ms
        accuracy_part == RatMul(m.accuracy, Rat(2, 5))
        speed_part == RatMul(RatDiv(Rat(1000, 1), speed), Rat(3, 10))
        green_part == RatMul(RatMul(m.green_score, Rat(1, 100)), Rat(3, 10))
    IN  RatAdd(accuracy_part, RatAdd(speed_part, green_part))

\* C14: in the enhanced handler the winner of a completed comparison is model_a's
\* name when the composite score of A is the greater, model_b's name when that
\* of B is the greater, and "Tie" exactly when the two scores are equal.
C14_CompositeWinner ==
    (worker = "enhanced" /\ hpc = "done" /\ "comparison" \in DOMAIN result)
        => LET score_a == C14_Score(metrics_a)
               score_b == C14_Score(metrics_b)
               winner == result.comparison.winner
           IN  /\ RatLess(score_b, score_a) => winner = job.model_a
               /\ RatLess(score_a, score_b) => winner = job.model_b
               /\ (score_a = score_b) <=> (winner = "Tie")
               /\ job.model_a # job.model_b
                     => /\ (winner = job.model_a) <=> RatLess(score_b, score_a)
                        /\ (winner = job.model_b) <=> RatLess(score_a, score_b)

\* The slower model wins on the composite score although it is the less accurate.
C14_Witness ==
    /\ worker = "enhanced"
    /\ hpc = "done"
    /\ "comparison" \in DOMAIN result
    /\ job.model_a # job.model_b
    /\ result.comparison.winner = job.model_b
    /\ RatLess(metrics_b.accuracy, metrics_a.accuracy)
    /\ RatLess(metrics_b.speed_ms, One)

\* C15: the winner column of the committed row names the winner the handler
\* returned: model_a / model_b / tie exactly when the returned winner is
\* model_a's name / model_b's name / "Tie".
C15_StoredWinnerMatches ==
    (worker = "enhanced" /\ hpc = "done" /\ database.rows = 1
        /\ "comparison" \in DOMAIN result /\ job.model_a # job.model_b)
        => LET winner == result.comparison.winner
           IN  /\ (database.row_winner = "model_a") <=> (winner = job.model_a)
               /\ (database.row_winner = "model_b") <=> (winner = job.model_b)
               /\ (database.row_winner = "tie") <=> (winner = "Tie")

\* C16: in both comparison paths (composite score in the enhanced handler, F1 in
\* the basic handler) equal deciding values give a winner that is neither model,
\* and otherwise the winner is the model with the greater deciding value.
C16_TieIsReported ==
    (hpc = "done" /\ BothRunsReturned /\ ~HasError(result))
        => IF worker = "enhanced"
           THEN LET score_a == composite_score(metrics_a)
                    score_b == composite_score(metrics_b)
                    winner == result.comparison.winner
                IN  /\ score_a = score_b => winner = "Tie"
                    /\ RatLess(score_b, score_a) => winner = job.model_a
                    /\ RatLess(score_a, score_b) => winner = job.model_b
           ELSE LET f1_a == metrics_a.f1_score
                    f1_b == metrics_b.f1_score
                IN  /\ f1_a = f1_b => result.winner \notin {"Model A", "Model B"}
                    /\ RatLess(f1_b, f1_a) => result.winner = "Model A"
                    /\ RatLess(f1_a, f1_b) => result.winner = "Model B"

RECURSIVE SumOfImageScores(_, _, _)
SumOfImageScores(w, log, score) ==
    IF log = <<>> THEN Zero
    ELSE RatAdd(SumOfImageScores(w, Tail(log), score),
                scoring_function(w, Head(log).detections, Head(log).ground_truth)[score])

\* C20: the accuracy, precision, recall and f1_score a run reports are the means
\* over the processed images of the per-image scores.
C20_AggregateIsMeanOfImageScores ==
    (bm.aggregated /\ Len(bm.image_log) > 0)
        => \A score \in {"accuracy", "precision", "recall", "f1_score"} :
              bm.metrics[score] = RatDiv(SumOfImageScores(worker, bm.image_log, score),
                                         Rat(Len(bm.image_log), 1))

\* The run in progress has ended, by return or by exception.
RunEnded == bm.pc \in {"returned", "raised"}

\* C21: a run over an empty batch whose model was loaded ends by returning a
\* record, not by an exception, and the accuracy, precision, recall, f1_score,
\* speed_ms and throughput_fps of that record are all 0.
C21_ZeroImagesGiveZeroMetrics ==
    (RunEnded /\ Len(Images) = 0 /\ bm.model # NoHandle)
        => /\ bm.pc = "returned"
           /\ bm.exc = "none"
           /\ bm.aggregated
           /\ \A field \in {"accuracy", "precision", "recall", "f1_score",
                             "speed_ms", "throughput_fps"} : bm.metrics[field] = Zero

\* Every image of the batch was processed and yielded exactly as many detections
\* as its ground truth.
AllCountsMatch ==
    /\ Len(bm.image_log) = Len(Images)
    /\ \A k \in 1..Len(bm.image_log) :
          bm.image_log[k].detections = bm.image_log[k].ground_truth

\* C22: a run over a non-empty batch in which every image yields exactly its
\* ground-truth count of detections returns a record with accuracy 1, f1_score 1
\* and inference_count equal to the batch size.
C22_ExactCountsScoreOne ==
    (RunEnded /\ bm.model # NoHandle /\ Len(Images) > 0 /\ AllCountsMatch)
        => /\ bm.pc = "returned"
           /\ bm.aggregated
           /\ bm.metrics.accuracy = One
           /\ bm.metrics.f1_score = One
           /\ bm.metrics.inference_count = Len(Images)

C22_Witness ==
    /\ bm.pc = "returned"
    /\ Len(Images) = MaxImages
    /\ AllCountsMatch
    /\ \E i, k \in 1..Len(Images) :
          Images[i].ground_truth_cars > Images[k].ground_truth_cars
    /\ bm.metrics.accuracy = One
    /\ bm.metrics.f1_score = One

\* The registered names load_model has no framework constructor for: the
\* non-vision models, and detectron2 where the package is not installed.
NoConstructor == {n \in SUPPORTED_MODELS : ModelType(n) = "other"}

\* C23: a load that could not construct the model returns no handle, and for a
\* registered name that no framework can construct load_model never returns a
\* handle, never caches one, and no run for it gets as far as its metrics.
C23_NoSubstituteModel ==
    /\ \A k \in 1..Len(load_log) :
          /\ load_log[k].outcome \in {"failed", "unsupported"}
                => load_log[k].handle = NoHandle
          /\ load_log[k].name \in NoConstructor
                => /\ load_log[k].outcome \in {"failed", "unsupported"}
                   /\ load_log[k].handle = NoHandle
    /\ \A n \in NoConstructor : model_cache[n] = NoHandle
    /\ bm.aggregated => bm.model_name \notin NoConstructor

\* 0 <= x <= 100.
InScoreRange(x) == ~RatLess(x, Zero) /\ ~RatLess(Rat(100, 1), x)

\* C24: every call of calculate_green_score, of either worker and with every
\* input (zero and negative carbon_emissions, speed_ms and memory_mb included),
\* returns instead of raising, and what it returns lies in [0, 100].
C24_GreenScoreInRange ==
    scored.called
        => /\ ~scored.green.raised
           /\ InScoreRange(scored.green.out)

\* x <= y.
RatLeq(x, y) == ~RatLess(y, x)

\* The two calls took the same arguments but for the one named by field.
DiffersOnlyIn(field, x, y) ==
    \A other \in {"carbon_emissions", "accuracy", "speed_ms", "memory_mb"} \ {field} :
        x[other] = y[other]

\* C25: of two calls of the enhanced worker's calculate_green_score that differ
\* in one argument only, the call with the higher accuracy does not return
\* less, and the call with the higher carbon_emissions, speed_ms or memory_mb
\* does not return more, arguments at and below zero included.
C25_GreenScoreMonotone ==
    [][(worker = "enhanced" /\ scored.called /\ scored'.called)
          => /\ (DiffersOnlyIn("accuracy", scored, scored')
                    /\ RatLeq(scored.accuracy, scored'.accuracy))
                   => RatLeq(scored.green.out, scored'.green.out)
             /\ \A field \in {"carbon_emissions", "speed_ms", "memory_mb"} :
                   (DiffersOnlyIn(field, scored, scored')
                       /\ RatLeq(scored[field], scored'[field]))
                      => RatLeq(scored'.green.out, scored.green.out)]_vars

\* A call with arguments at and below zero whose score is cut off by neither end
\* of the final clamp.
C25_Witness ==
    /\ worker = "enhanced"
    /\ scored.called
    /\ scored.carbon_emissions = Zero
    /\ RatLess(scored.memory_mb, Zero)
    /\ RatLess(One, scored.speed_ms)
    /\ RatLess(Zero, scored.green.out)
    /\ RatLess(scored.green.out, Rat(100, 1))

\* C26: every call of the enhanced worker's calculate_green_score returns what
\* it returns for the arguments raised to the floors first:
\* green_score(c, a, s, m) = green_score(max(c, 0.001), a, max(s, 1.0), max(m, 100)).
C26_FloorsEquivalent ==
    (worker = "enhanced" /\ scored.called)
        => scored.green.out =
              calculate_green_score_enhanced(RatMax(scored.carbon_emissions, Rat(1, 1000)),
                                             scored.accuracy,
                                             RatMax(scored.speed_ms, One),
                                             RatMax(scored.memory_mb, Rat(100, 1)))

\* A call with every floored argument positive and below its floor.
C26_Witness ==
    /\ worker = "enhanced"
    /\ scored.called
    /\ RatLess(Zero, scored.carbon_emissions) /\ RatLess(scored.carbon_emissions, Rat(1, 1000))
    /\ RatLess(Zero, scored.speed_ms) /\ RatLess(scored.speed_ms, One)
    /\ RatLess(Zero, scored.memory_mb) /\ RatLess(scored.memory_mb, Rat(100, 1))
    /\ RatLess(scored.green.out, Rat(100, 1))

\* C27: whatever the resource queries of a sample do, no run is ended by them:
\* in a job whose loads, images and detections do not fail, no run ends by an
\* exception, both runs return their metrics and the job returns no error.
C27_SamplingErrorNeverAborts ==
    /\ bm.exc = "none"
    /\ bm.pc # "raised"
    /\ hpc = "done" => (BothRunsReturned /\ ~HasError(result))

\* C28: whatever the sampling threads do, stop_monitoring returns and the
\* handler gets to its end.
C28_StopAlwaysReturns == <>(hpc = "done")

\* The handler has ended with both runs returned while a sampling thread is
\* still inside its loop, left behind by a join that timed out.
C28_Witness ==
    /\ worker = "enhanced"
    /\ hpc = "done"
    /\ BothRunsReturned
    /\ \E i \in 1..Len(threads) : threads[i].pc = "sample"

\* The sampling threads that have passed the "while self.monitoring" test and
\* are taking a sample.
Sampling == {i \in 1..Len(threads) : threads[i].pc = "sample"}

\* C29: over the start_monitoring / stop_monitoring calls of one monitor, at
\* most one sampling thread is taking samples at any time, and a thread started
\* for the first run takes none once that run's stop_monitoring has returned.
C29_OneSamplingThread ==
    /\ Cardinality(Sampling) <= 1
    /\ Len(threads) = 2 => 1 \notin Sampling

\* C30: once a run has returned its metrics record no later step changes it:
\* not run B, not the winner computation, not the save; the job input stays as
\* it was, every image a run has processed is the image of the batch at that
\* position, and the record in the result is the record run A returned.
C30_ReturnedMetricsFrozen ==
    [][ /\ metrics_a # NoMetrics => metrics_a' = metrics_a
        /\ metrics_b # NoMetrics => metrics_b' = metrics_b
        /\ job' = job
        /\ \A k \in 1..Len(bm'.image_log) :
              bm'.image_log[k].ground_truth = get_images_data(job)[k].ground_truth_cars
        /\ (hpc' = "done" /\ BothRunsReturned' /\ ~HasError(result'))
              => IF worker = "enhanced"
                 THEN result'.comparison.modelA.metrics = metrics_a
                 ELSE result'.model_a_metrics = metrics_a ]_vars

\* Both runs have returned different records and the row has been committed.
C30_Witness ==
    /\ worker = "enhanced"
    /\ hpc = "done"
    /\ BothRunsReturned
    /\ metrics_a # metrics_b
    /\ database.rows = 1
    /\ result.comparison.modelA.metrics = metrics_a

====
